---- MODULE Spec2Model ----
(***************************************************************************)
(* ethcore/private-tx/src/key_server_keys.rs: the key/address identifier   *)
(* mapping and the SecretStoreKeys provider (a cached ACL contract address *)
(* behind a parking_lot::RwLock, refreshed from the registry and read by   *)
(* every available_keys query), run by several threads.                    *)
(***************************************************************************)
EXTENDS Integers, Sequences, FiniteSets, TLC

\* ---------------------------------------------------------------- bounds
NumThreads == 2
MaxKeys == 2

\* ------------------------------------------------------ program constants
H256Bytes == 32
AddressBytes == 20
KeyPrefixBytes == 10

Threads == 1..NumThreads

\* Option<T>
None == [some |-> FALSE]
Some(v) == [some |-> TRUE, value |-> v]

\* ------------------------------------------------------------ identifiers
\* An Address is AddressBytes bytes, an H256 is H256Bytes bytes (big-endian).
AddressOf(b) == [i \in 1..AddressBytes |-> b]
KeyOf(lead, trail) == [i \in 1..H256Bytes |-> IF i <= KeyPrefixBytes THEN lead ELSE trail]

\* Address::from_slice of a slice no longer than an address: the bytes are
\* copied to the front of a zero-initialised address.
AddressFromSlice(bytes) ==
    [i \in 1..AddressBytes |-> IF i <= Len(bytes) THEN bytes[i] ELSE 0]

\* A key_to_address that takes as many leading bytes as an address has.
key_to_address_whole(key) == AddressFromSlice(SubSeq(key, 1, AddressBytes))

\* key_to_address: Address::from_slice(&key.to_vec()[..10])
key_to_address(key) == AddressFromSlice(SubSeq(key, 1, KeyPrefixBytes))

\* H256::from(Address): the address right-aligned, the high-order bytes zero.
H256FromAddress(addr) ==
    [i \in 1..H256Bytes |->
        IF i <= H256Bytes - AddressBytes THEN 0 ELSE addr[i - (H256Bytes - AddressBytes)]]

\* address_to_key: the contract address extended with 0
address_to_key(contract_address) == H256FromAddress(contract_address)

\* ----------------------------------------------------------- input values
AclAddresses == {AddressOf(170), AddressOf(171)}
Accounts == {AddressOf(187), AddressOf(188)}
Blocks == {"Latest", "Number1"}
Keys == {KeyOf(204, 1), KeyOf(221, 2)}

\* Keys that agree or differ in the leading 10, the next 10 and the last 12 bytes.
KeyOf3(lead, mid, trail) ==
    [i \in 1..H256Bytes |->
        IF i <= KeyPrefixBytes THEN lead ELSE IF i <= AddressBytes THEN mid ELSE trail]
CodecKeys == {KeyOf3(l, m, t) : l \in {1, 2}, m \in {0, 3}, t \in {0, 4}}
CodecAddresses == {AddressOf(0), AddressOf(170), [i \in 1..AddressBytes |-> i]}
StoredAddresses == {AddressOf(17), AddressOf(34)}

OptAclAddress == {None} \cup {Some(a) : a \in AclAddresses}
KeyServerAccounts == {None, Some(AddressOf(187))}

RECURSIVE SeqsUpTo(_, _)
SeqsUpTo(S, n) ==
    IF n = 0 THEN {<<>>}
    ELSE LET shorter == SeqsUpTo(S, n - 1)
         IN shorter \cup {Append(s, x) : s \in {q \in shorter : Len(q) = n - 1}, x \in S}

KeyLists == SeqsUpTo(Keys, MaxKeys)
StoredLists == SeqsUpTo(StoredAddresses, MaxKeys)

\* ------------------------------------------------------ the ACL contract ABI
\* A 32-byte word holding a small number.
Word(n) == [i \in 1..H256Bytes |-> IF i = H256Bytes THEN n ELSE 0]

\* keys_acl_contract::functions::available_keys::call(account): the call data
AvailableKeysCall(account) ==
    [function |-> "available_keys", args |-> <<H256FromAddress(account)>>]

\* The contract's output for a key list: offset word, length word, the keys.
EncodeKeys(ks) == <<Word(H256Bytes), Word(Len(ks))>> \o ks

\* decoder.decode(&value).ok()
DecodeKeys(raw) ==
    IF /\ Len(raw) >= 2
       /\ raw[1] = Word(H256Bytes)
       /\ raw[2] = Word(Len(raw) - 2)
    THEN Some(SubSeq(raw, 3, Len(raw)))
    ELSE None

\* What client.call_contract can answer: an error, or Ok(raw output), where
\* the raw output is an encoded key list, empty, or cut short after one word.
NoReply == [kind |-> "none"]
ErrReply == [kind |-> "err"]
OkReply(raw) == [kind |-> "ok", value |-> raw]
RawOutputs ==
    {EncodeKeys(ks) : ks \in KeyLists}
        \cup {<<>>, <<Word(H256Bytes)>>}
Replies == {ErrReply} \cup {OkReply(raw) : raw \in RawOutputs}

\* client.call_contract(block, acl_contract_address, data)
CallContract(block, address, data) ==
    [block |-> block, address |-> address, data |-> data]

\* Lines 88-91: the requests available_keys sends for a guarded value.
GatewayRequests(cached, block, account) ==
    IF cached.some
    THEN <<CallContract(block, cached.value, AvailableKeysCall(account))>>
    ELSE <<>>

\* A keys_to_addresses that inserts each address at the front.
RECURSIVE InsertAddresses(_, _)
InsertAddresses(addresses, key_values) ==
    IF key_values = <<>> THEN addresses
    ELSE InsertAddresses(<<key_to_address(Head(key_values))>> \o addresses, Tail(key_values))

keys_to_addresses_front(keys) ==
    IF keys.some THEN Some(InsertAddresses(<<>>, keys.value)) ELSE None

\* SecretStoreKeys::keys_to_addresses
RECURSIVE PushAddresses(_, _)
PushAddresses(addresses, key_values) ==
    IF key_values = <<>> THEN addresses
    ELSE PushAddresses(Append(addresses, key_to_address(Head(key_values))), Tail(key_values))

keys_to_addresses(keys) ==
    IF keys.some THEN Some(PushAddresses(<<>>, keys.value)) ELSE None

\* An available_keys that answers a failed call with the empty list.
AvailableKeysResultOrEmpty(reply) ==
    IF reply.kind = "ok" /\ DecodeKeys(reply.value).some
    THEN keys_to_addresses(DecodeKeys(reply.value))
    ELSE Some(<<>>)

\* The value of available_keys once call_contract has answered.
AvailableKeysResult(reply) ==
    IF reply.kind = "ok" THEN keys_to_addresses(DecodeKeys(reply.value)) ELSE None

\* Option::and
OptionAnd(self, optb) == IF self.some THEN optb ELSE None

\* Line 110, `keys_acl_contract.and(contract_address);`: the guarded Option is
\* copied out, `and` computes a value, the statement drops it. The value left
\* behind the guard is the one that was there.
StoreThroughGuard(cached, contract_address) ==
    LET dropped == OptionAnd(cached, contract_address) IN cached

\* ------------------------------------------------------------------- state
VARIABLES
    keys_acl_contract,   \* the value inside RwLock<Option<Address>>
    key_server_account,  \* the configured account
    from_new,            \* TRUE iff the fields are as SecretStoreKeys::new leaves them
    readers,             \* threads holding a read guard of the RwLock
    parked,              \* threads blocked in write()
    pc,                  \* each thread's position
    contract_address,    \* update_acl_contract: the registry's answer
    block,               \* available_keys: argument
    account,             \* available_keys: argument
    seen,                \* the value read through the thread's read guard
    calls,               \* gateway requests in flight
    ncalls,              \* gateway requests issued by the current call
    reply,               \* the gateway's answer
    ret,                 \* the returned value
    wrote,               \* update_acl_contract: the write guard was taken
    lastUpd,             \* the last update_acl_contract that returned
    resolved,            \* the addresses the registry has answered since new
    available_keys,      \* StoringKeyProvider: the field available_keys
    populated,           \* StoringKeyProvider: set_available_keys has run
    sk_call,             \* StoringKeyProvider: the last call and its value
    codec_key,           \* identifier mapping: a key
    codec_key2,          \* identifier mapping: another key
    codec_address,       \* identifier mapping: a contract address
    codec_out            \* identifier mapping: the last function applied

vars == <<keys_acl_contract, key_server_account, from_new, readers, parked, pc,
          contract_address, block, account, seen, calls, ncalls, reply, ret, wrote,
          lastUpd, resolved, available_keys, populated, sk_call, codec_key,
          codec_key2, codec_address, codec_out>>

shared == <<keys_acl_contract, key_server_account, from_new>>
locals == <<contract_address, block, account, seen, calls, ncalls, reply, ret, wrote>>
storing == <<available_keys, populated, sk_call>>
codec == <<codec_key, codec_key2, codec_address, codec_out>>

NoUpd == [returned |-> FALSE]
UpdPcs == {"upd_read", "upd_compare", "upd_write"}
AvPcs == {"av_read", "av_match", "av_call"}

\* SecretStoreKeys::new(client, key_server_account)
new(ksa) == [key_server_account |-> ksa, keys_acl_contract |-> None]

\* The provider as new leaves it (from_new), and, so that every arm of the
\* methods is exercised, the provider with each other value of the field
\* keys_acl_contract.
SecretStoreInit ==
    /\ \E ksa \in KeyServerAccounts, c \in OptAclAddress :
          /\ key_server_account = new(ksa).key_server_account
          /\ keys_acl_contract = c
          /\ from_new = (c = new(ksa).keys_acl_contract)
    /\ readers = {}
    /\ parked = {}
    /\ pc = [t \in Threads |-> "idle"]
    /\ contract_address = [t \in Threads |-> None]
    /\ block = [t \in Threads |-> "-"]
    /\ account = [t \in Threads |-> <<>>]
    /\ seen = [t \in Threads |-> None]
    /\ calls = [t \in Threads |-> <<>>]
    /\ ncalls = [t \in Threads |-> 0]
    /\ reply = [t \in Threads |-> NoReply]
    /\ ret = [t \in Threads |-> None]
    /\ wrote = [t \in Threads |-> FALSE]
    /\ lastUpd = NoUpd
    /\ resolved = {}

\* StoringKeyProvider::default()
NoCall == [op |-> "none"]
StoringDefault ==
    /\ available_keys = None
    /\ populated = FALSE
    /\ sk_call = NoCall

\* No identifier has been mapped.
NoOut == [op |-> "none"]
CodecIdle ==
    /\ codec_key = KeyOf(0, 0)
    /\ codec_key2 = KeyOf(0, 0)
    /\ codec_address = AddressOf(0)
    /\ codec_out = NoOut

Init == SecretStoreInit /\ StoringDefault /\ CodecIdle

\* ------------------------------------------------------- parking_lot::RwLock
\* read() blocks while a writer holds the lock or waits for it.
CanRead(t) == parked = {}

\* write() blocks while any read guard is alive, the caller's own included.
CanWrite(t) == readers = {}

\* ------------------------------------------------------ update_acl_contract
\* Line 102: the registry's answer for ACL_CHECKER_CONTRACT_REGISTRY_NAME.
UpdStart(t) ==
    /\ pc[t] = "idle"
    /\ \E r \in OptAclAddress :
          /\ contract_address' = [contract_address EXCEPT ![t] = r]
          /\ resolved' = IF from_new /\ r.some THEN resolved \cup {r.value} ELSE resolved
    /\ pc' = [pc EXCEPT ![t] = "upd_read"]
    /\ UNCHANGED <<shared, readers, parked, block, account, seen, calls, ncalls, reply,
                   ret, wrote, lastUpd>>
    /\ UNCHANGED <<storing, codec>>

\* Line 103: let current_address = self.keys_acl_contract.read();
UpdRead(t) ==
    /\ pc[t] = "upd_read"
    /\ CanRead(t)
    /\ readers' = readers \cup {t}
    /\ pc' = [pc EXCEPT ![t] = "upd_compare"]
    /\ UNCHANGED <<shared, parked, locals, lastUpd>>
    /\ UNCHANGED <<resolved, storing, codec>>

\* An update_acl_contract whose comparison is `==`.
UpdCompareInverted(t) ==
    /\ pc[t] = "upd_compare"
    /\ seen' = [seen EXCEPT ![t] = keys_acl_contract]
    /\ IF keys_acl_contract = contract_address[t]
       THEN /\ pc' = [pc EXCEPT ![t] = "upd_write"]
            /\ UNCHANGED <<readers, lastUpd>>
       ELSE /\ pc' = [pc EXCEPT ![t] = "upd_done"]
            /\ readers' = readers \ {t}
            /\ lastUpd' = [returned |-> TRUE, R |-> contract_address[t],
                           cache |-> keys_acl_contract]
    /\ UNCHANGED <<shared, parked, contract_address, block, account, calls, ncalls,
                   reply, ret, wrote>>
    /\ UNCHANGED <<resolved, storing, codec>>

\* Line 105: if *current_address != contract_address. When equal the function
\* ends: current_address is dropped and the call returns.
UpdCompare(t) ==
    /\ pc[t] = "upd_compare"
    /\ seen' = [seen EXCEPT ![t] = keys_acl_contract]
    /\ IF keys_acl_contract /= contract_address[t]
       THEN /\ pc' = [pc EXCEPT ![t] = "upd_write"]
            /\ UNCHANGED <<readers, lastUpd>>
       ELSE /\ pc' = [pc EXCEPT ![t] = "upd_done"]
            /\ readers' = readers \ {t}
            /\ lastUpd' = [returned |-> TRUE, R |-> contract_address[t],
                           cache |-> keys_acl_contract]
    /\ UNCHANGED <<shared, parked, contract_address, block, account, calls, ncalls,
                   reply, ret, wrote>>
    /\ UNCHANGED <<resolved, storing, codec>>

\* Lines 109-112: self.keys_acl_contract.write() with current_address still
\* alive. The thread parks until the lock is free; with the lock it runs line
\* 110 and drops both guards.
UpdWrite(t) ==
    /\ pc[t] = "upd_write"
    /\ IF CanWrite(t)
       THEN /\ keys_acl_contract' = StoreThroughGuard(keys_acl_contract, contract_address[t])
            /\ wrote' = [wrote EXCEPT ![t] = TRUE]
            /\ parked' = parked \ {t}
            /\ readers' = readers \ {t}
            /\ pc' = [pc EXCEPT ![t] = "upd_done"]
            /\ lastUpd' = [returned |-> TRUE, R |-> contract_address[t],
                           cache |-> keys_acl_contract']
       ELSE /\ parked' = parked \cup {t}
            /\ UNCHANGED <<keys_acl_contract, wrote, readers, pc, lastUpd>>
    /\ UNCHANGED <<key_server_account, from_new, contract_address, block, account, seen,
                   calls, ncalls, reply, ret>>
    /\ UNCHANGED <<resolved, storing, codec>>

\* ----------------------------------------------------------- available_keys
AvStart(t) ==
    /\ pc[t] = "idle"
    /\ \E b \in Blocks, a \in Accounts :
          /\ block' = [block EXCEPT ![t] = b]
          /\ account' = [account EXCEPT ![t] = a]
    /\ pc' = [pc EXCEPT ![t] = "av_read"]
    /\ UNCHANGED <<shared, readers, parked, contract_address, seen, calls, ncalls, reply,
                   ret, wrote, lastUpd>>
    /\ UNCHANGED <<resolved, storing, codec>>

\* Line 88: self.keys_acl_contract.read(), a temporary of the match scrutinee.
AvRead(t) ==
    /\ pc[t] = "av_read"
    /\ CanRead(t)
    /\ readers' = readers \cup {t}
    /\ pc' = [pc EXCEPT ![t] = "av_match"]
    /\ UNCHANGED <<shared, parked, locals, lastUpd>>
    /\ UNCHANGED <<resolved, storing, codec>>

\* An available_keys that matches on the field key_server_account instead of
\* the guarded keys_acl_contract.
AvMatchByAccount(t) ==
    /\ pc[t] = "av_match"
    /\ seen' = [seen EXCEPT ![t] = key_server_account]
    /\ IF key_server_account.some
       THEN /\ calls' = [calls EXCEPT ![t] =
                  GatewayRequests(key_server_account, block[t], account[t])]
            /\ ncalls' = [ncalls EXCEPT ![t] = @ + 1]
            /\ pc' = [pc EXCEPT ![t] = "av_call"]
            /\ UNCHANGED <<readers, ret, block, account>>
       ELSE /\ ret' = [ret EXCEPT ![t] = None]
            /\ readers' = readers \ {t}
            /\ pc' = [pc EXCEPT ![t] = "av_done"]
            /\ block' = [block EXCEPT ![t] = "-"]
            /\ account' = [account EXCEPT ![t] = <<>>]
            /\ UNCHANGED <<calls, ncalls>>
    /\ UNCHANGED <<shared, parked, contract_address, reply, wrote, lastUpd>>
    /\ UNCHANGED <<resolved, storing, codec>>

\* Lines 88-91 and 97: match on the guarded value. None: the call returns None
\* and the guard is dropped. Some(address): the call data is built and
\* call_contract is entered, the guard still alive.
AvMatch(t) ==
    /\ pc[t] = "av_match"
    /\ seen' = [seen EXCEPT ![t] = keys_acl_contract]
    /\ IF keys_acl_contract.some
       THEN /\ calls' = [calls EXCEPT ![t] =
                  GatewayRequests(keys_acl_contract, block[t], account[t])]
            /\ ncalls' = [ncalls EXCEPT ![t] = @ + 1]
            /\ pc' = [pc EXCEPT ![t] = "av_call"]
            /\ UNCHANGED <<readers, ret, block, account>>
       ELSE /\ ret' = [ret EXCEPT ![t] = None]
            /\ readers' = readers \ {t}
            /\ pc' = [pc EXCEPT ![t] = "av_done"]
            /\ block' = [block EXCEPT ![t] = "-"]
            /\ account' = [account EXCEPT ![t] = <<>>]
            /\ UNCHANGED <<calls, ncalls>>
    /\ UNCHANGED <<shared, parked, contract_address, reply, wrote, lastUpd>>
    /\ UNCHANGED <<resolved, storing, codec>>

\* Lines 91-95: call_contract answers; the value is decoded and mapped, the
\* match ends, which drops the guard, and the call returns (its arguments are
\* gone).
AvGateway(t) ==
    /\ pc[t] = "av_call"
    /\ \E r \in Replies :
          /\ reply' = [reply EXCEPT ![t] = r]
          /\ ret' = [ret EXCEPT ![t] = AvailableKeysResult(r)]
    /\ calls' = [calls EXCEPT ![t] = <<>>]
    /\ block' = [block EXCEPT ![t] = "-"]
    /\ account' = [account EXCEPT ![t] = <<>>]
    /\ readers' = readers \ {t}
    /\ pc' = [pc EXCEPT ![t] = "av_done"]
    /\ UNCHANGED <<shared, parked, contract_address, seen, ncalls, wrote, lastUpd>>
    /\ UNCHANGED <<resolved, storing, codec>>

\* A key_server_account that answers as the dummy provider does.
KeyServerAccountNone(t) ==
    /\ pc[t] = "idle"
    /\ ret' = [ret EXCEPT ![t] = None]
    /\ pc' = [pc EXCEPT ![t] = "ksa_done"]
    /\ UNCHANGED <<shared, readers, parked, contract_address, block, account, seen,
                   calls, ncalls, reply, wrote, lastUpd>>
    /\ UNCHANGED <<resolved, storing, codec>>

\* Lines 83-85: key_server_account returns the field.
KeyServerAccount(t) ==
    /\ pc[t] = "idle"
    /\ ret' = [ret EXCEPT ![t] = key_server_account]
    /\ pc' = [pc EXCEPT ![t] = "ksa_done"]
    /\ UNCHANGED <<shared, readers, parked, contract_address, block, account, seen,
                   calls, ncalls, reply, wrote, lastUpd>>
    /\ UNCHANGED <<resolved, storing, codec>>

\* The caller takes the returned value; the call's locals are gone.
Return(t) ==
    /\ pc[t] \in {"upd_done", "av_done", "ksa_done"}
    /\ pc' = [pc EXCEPT ![t] = "idle"]
    /\ contract_address' = [contract_address EXCEPT ![t] = None]
    /\ block' = [block EXCEPT ![t] = "-"]
    /\ account' = [account EXCEPT ![t] = <<>>]
    /\ seen' = [seen EXCEPT ![t] = None]
    /\ calls' = [calls EXCEPT ![t] = <<>>]
    /\ ncalls' = [ncalls EXCEPT ![t] = 0]
    /\ reply' = [reply EXCEPT ![t] = NoReply]
    /\ ret' = [ret EXCEPT ![t] = None]
    /\ wrote' = [wrote EXCEPT ![t] = FALSE]
    /\ UNCHANGED <<shared, readers, parked, lastUpd>>
    /\ UNCHANGED <<resolved, storing, codec>>

\* A step of a call in progress.
Step(t) ==
    \/ UpdRead(t)
    \/ UpdCompare(t)
    \/ UpdWrite(t)
    \/ AvRead(t)
    \/ AvMatch(t)
    \/ AvGateway(t)
    \/ Return(t)

Next == \E t \in Threads : UpdStart(t) \/ AvStart(t) \/ KeyServerAccount(t) \/ Step(t)

Spec == Init /\ [][Next]_vars

\* The threads are scheduled fairly and call_contract answers.
FairSpec == Spec /\ \A t \in Threads : WF_vars(Step(t))

\* ------------------------------------------------------ StoringKeyProvider
main == <<keys_acl_contract, key_server_account, from_new, readers, parked, pc,
          contract_address, block, account, seen, calls, ncalls, reply, ret, wrote,
          lastUpd, resolved>>

\* Lines 122-124: self.available_keys.replace(keys.to_vec())
set_available_keys(keys) ==
    /\ available_keys' = Some(keys)
    /\ populated' = TRUE
    /\ UNCHANGED <<sk_call, main, codec>>

\* Line 128
SkKeyServerAccount ==
    /\ sk_call' = [op |-> "key_server_account", ret |-> None]
    /\ UNCHANGED <<available_keys, populated, main, codec>>

\* An available_keys that takes the stored list out of the field.
SkAvailableKeysTake(b, a) ==
    /\ sk_call' = [op |-> "available_keys", block |-> b, account |-> a,
                   ret |-> available_keys]
    /\ available_keys' = None
    /\ UNCHANGED <<populated, main, codec>>

\* Lines 130-132: self.available_keys.clone()
SkAvailableKeys(b, a) ==
    /\ sk_call' = [op |-> "available_keys", block |-> b, account |-> a,
                   ret |-> available_keys]
    /\ UNCHANGED <<available_keys, populated, main, codec>>

\* Line 134
SkUpdateAclContract ==
    /\ sk_call' = [op |-> "update_acl_contract"]
    /\ UNCHANGED <<available_keys, populated, main, codec>>

StoringInit == Init /\ from_new /\ key_server_account = None

StoringNext ==
    \/ \E keys \in StoredLists : set_available_keys(keys)
    \/ SkKeyServerAccount
    \/ \E b \in Blocks, a \in Accounts : SkAvailableKeys(b, a)
    \/ SkUpdateAclContract

StoringSpec == StoringInit /\ [][StoringNext]_vars

\* ------------------------------------------------------ identifier mapping
\* key_to_address applied to the two keys.
CodecKeyToAddress ==
    /\ codec_out' = [op |-> "key_to_address",
                     address |-> key_to_address(codec_key),
                     address2 |-> key_to_address(codec_key2)]
    /\ UNCHANGED <<codec_key, codec_key2, codec_address, main, storing>>

\* address_to_key applied to the address, and key_to_address to its key.
CodecAddressToKey ==
    /\ codec_out' = [op |-> "address_to_key",
                     key |-> address_to_key(codec_address),
                     address |-> key_to_address(address_to_key(codec_address))]
    /\ UNCHANGED <<codec_key, codec_key2, codec_address, main, storing>>

CodecInit ==
    /\ SecretStoreInit /\ from_new /\ key_server_account = None
    /\ StoringDefault
    /\ codec_key \in CodecKeys
    /\ codec_key2 \in CodecKeys
    /\ codec_address \in CodecAddresses
    /\ codec_out = NoOut

CodecNext == CodecKeyToAddress \/ CodecAddressToKey

CodecSpec == CodecInit /\ [][CodecNext]_vars

\* ------------------------------------------------------------------ claims
Addresses(ks) == [i \in 1..Len(ks) |-> key_to_address(ks[i])]

\* C1: a call to update_acl_contract whose comparison found the registry's
\* answer different from the cached address returns with the cached address
\* equal to that answer (unset to set, set to another, set to unset).
C1_ReplacesCache ==
    \A t \in Threads :
        (pc[t] = "upd_write")
            ~> (pc[t] = "upd_done" /\ keys_acl_contract = contract_address[t])

\* C2: on a new provider, once update_acl_contract has been called with the
\* registry resolving the name to a, the call returns and leaves the provider
\* such that available_keys(state, b) sends exactly one request, to contract a
\* at state with the call data for b, and answers Some of the decoded keys
\* mapped through key_to_address.
C2_EndToEnd ==
    \A u \in Threads : \A a \in AclAddresses :
        (from_new /\ pc[u] = "upd_read" /\ contract_address[u] = Some(a))
            ~> (/\ pc[u] = "upd_done"
                /\ \A b \in Blocks, acct \in Accounts :
                      GatewayRequests(keys_acl_contract, b, acct)
                          = <<CallContract(b, a, AvailableKeysCall(acct))>>
                /\ \A ks \in KeyLists :
                      AvailableKeysResult(OkReply(EncodeKeys(ks))) = Some(Addresses(ks)))

\* C3: every started call to update_acl_contract eventually returns.
C3_UpdateReturns ==
    \A t \in Threads : (pc[t] \in UpdPcs) ~> (pc[t] = "upd_done")

\* C4: available_keys on an unset cached address returns none without a
\* gateway request; on a new provider every available_keys call does so.
C4_UnsetReturnsNone ==
    \A t \in Threads :
        /\ (pc[t] = "av_done" /\ (~seen[t].some \/ from_new))
              => (ret[t] = None /\ ncalls[t] = 0 /\ reply[t] = NoReply)
        /\ (pc[t] = "av_call") => (seen[t].some /\ ~from_new)

C4_Witness ==
    \E t \in Threads :
        pc[t] = "av_done" /\ from_new /\ ~seen[t].some /\ ret[t] = None /\ ncalls[t] = 0

\* C5: with the cached address set, an available_keys call whose gateway
\* request fails, or whose output does not decode, returns none and leaves the
\* cached address as it was.
C5_FailureReturnsNone ==
    \A t \in Threads :
        (/\ pc[t] = "av_done"
         /\ seen[t].some
         /\ \/ reply[t].kind = "err"
            \/ reply[t].kind = "ok" /\ ~DecodeKeys(reply[t].value).some)
            => (ret[t] = None /\ keys_acl_contract = seen[t])

C5_Witness ==
    \E t, u \in Threads :
        /\ pc[t] = "av_done" /\ seen[t].some /\ reply[t].kind = "err" /\ ret[t] = None
        /\ pc[u] = "av_done" /\ seen[u].some /\ reply[u].kind = "ok"
        /\ ~DecodeKeys(reply[u].value).some /\ ret[u] = None

\* C6: with the cached address set, an available_keys call whose gateway
\* request succeeds with the output for the key list ks returns Some(s), s as
\* long as ks and s[i] = key_to_address(ks[i]) for every i; the empty list
\* gives Some of the empty list.
C6_MapsKeys ==
    \A t \in Threads : \A ks \in KeyLists :
        (pc[t] = "av_done" /\ seen[t].some /\ reply[t] = OkReply(EncodeKeys(ks)))
            => /\ ret[t].some
               /\ Len(ret[t].value) = Len(ks)
               /\ \A i \in 1..Len(ks) : ret[t].value[i] = key_to_address(ks[i])

C6_Witness ==
    \E t, u \in Threads : \E ks \in KeyLists :
        /\ Len(ks) = 2 /\ ks[1] /= ks[2]
        /\ pc[t] = "av_done" /\ reply[t] = OkReply(EncodeKeys(ks))
        /\ ret[t] = Some(<<key_to_address(ks[1]), key_to_address(ks[2])>>)
        /\ pc[u] = "av_done" /\ reply[u] = OkReply(EncodeKeys(<<>>))
        /\ ret[u] = Some(<<>>)

\* C7: an update_acl_contract whose registry answer equals the cached address
\* returns from the comparison with the cached address as it was and without
\* asking for the write lock; and a refresh that resolves what the last
\* returned refresh resolved does not go for the write lock.
C7_IdempotentRefresh ==
    [][\A t \in Threads :
          /\ (/\ pc[t] = "upd_compare" /\ pc'[t] /= "upd_compare"
              /\ keys_acl_contract = contract_address[t])
                => /\ pc'[t] = "upd_done"
                   /\ keys_acl_contract' = keys_acl_contract
                   /\ ~wrote'[t]
                   /\ t \notin parked'
                   /\ t \notin readers'
          /\ (/\ pc[t] = "upd_compare" /\ pc'[t] /= "upd_compare"
              /\ lastUpd.returned /\ lastUpd.R = contract_address[t])
                => (pc'[t] = "upd_done" /\ ~wrote'[t])]_vars

C7_Witness ==
    \E t, u \in Threads :
        /\ t /= u
        /\ pc[t] = "upd_done" /\ pc[u] = "upd_done"
        /\ contract_address[t].some
        /\ contract_address[u] = contract_address[t]
        /\ seen[t] = contract_address[t]
        /\ ~wrote[t] /\ ~wrote[u]
        /\ keys_acl_contract = contract_address[t]

\* C8: an update_acl_contract that found no registry entry returns with the
\* cached address unset, and while that is the last refresh to have returned
\* an available_keys call reading the cached address returns none without a
\* gateway request, whatever its account and chain state.
C8_NoEntryUnsets ==
    [][/\ \A u \in Threads :
             (pc[u] /= "upd_done" /\ pc'[u] = "upd_done" /\ contract_address[u] = None)
                 => keys_acl_contract' = None
       /\ \A r \in Threads :
             (/\ lastUpd.returned /\ lastUpd.R = None
              /\ pc[r] = "av_match" /\ pc'[r] /= "av_match")
                 => (pc'[r] = "av_done" /\ ret'[r] = None /\ ncalls'[r] = 0)]_vars

C8_Witness ==
    \E u, r \in Threads :
        /\ pc[u] = "upd_done" /\ contract_address[u] = None
        /\ lastUpd.returned /\ lastUpd.R = None
        /\ keys_acl_contract = None
        /\ pc[r] = "av_match" /\ account[r] \in Accounts /\ block[r] \in Blocks

C10_RepeatedRefresh ==
    [][/\ \A t \in Threads :
             (/\ pc[t] /= "upd_done" /\ pc'[t] = "upd_done"
              /\ lastUpd.returned /\ lastUpd.R = contract_address[t])
                 => keys_acl_contract' = lastUpd.cache
       /\ \A u, r \in Threads :
             (/\ pc[u] \in UpdPcs
              /\ lastUpd.returned /\ lastUpd.R = contract_address[u]
              /\ lastUpd.cache.some
              /\ pc[r] = "av_match" /\ pc'[r] /= "av_match")
                 => seen'[r].some]_vars

C10_Witness ==
    \E u, r \in Threads :
        /\ pc[u] = "upd_compare"
        /\ lastUpd.returned /\ lastUpd.R = contract_address[u]
        /\ lastUpd.cache.some /\ keys_acl_contract = lastUpd.cache
        /\ pc[r] = "av_match"

\* C11: a StoringKeyProvider's available_keys returns exactly the stored
\* sequence (none if never populated) for every account and chain state and
\* leaves it stored; update_acl_contract and key_server_account leave it
\* unchanged; key_server_account returns none; only set_available_keys
\* changes the stored sequence.
C11_StoringProvider ==
    [][/\ (sk_call' /= sk_call) => available_keys' = available_keys
       /\ (sk_call' /= sk_call /\ sk_call'.op = "available_keys")
             => /\ sk_call'.ret = available_keys
                /\ (~populated) => sk_call'.ret = None
       /\ (sk_call'.op = "key_server_account") => sk_call'.ret = None
       /\ (available_keys' /= available_keys)
             => /\ populated'
                /\ available_keys'.some /\ available_keys'.value \in StoredLists]_vars

C11_Witness ==
    /\ populated
    /\ sk_call.op = "available_keys"
    /\ sk_call.block = "Number1" /\ sk_call.account = AddressOf(188)
    /\ sk_call.ret = Some(<<AddressOf(17), AddressOf(34)>>)
    /\ available_keys = sk_call.ret

\* C12: key_to_address(address_to_key(a)) = a for every contract address a.
C12_RoundTrip ==
    (codec_out.op = "address_to_key") => codec_out.address = codec_address

\* C13: keys with equal 10 leading bytes are mapped to the same address by
\* key_to_address, whatever their 22 trailing bytes are.
C13_LeadingBytesOnly ==
    (/\ codec_out.op = "key_to_address"
     /\ SubSeq(codec_key, 1, KeyPrefixBytes) = SubSeq(codec_key2, 1, KeyPrefixBytes))
        => codec_out.address = codec_out.address2

C13_Witness ==
    /\ codec_out.op = "key_to_address"
    /\ SubSeq(codec_key, 1, KeyPrefixBytes) = SubSeq(codec_key2, 1, KeyPrefixBytes)
    /\ codec_key[KeyPrefixBytes + 1] /= codec_key2[KeyPrefixBytes + 1]
    /\ codec_key[H256Bytes] /= codec_key2[H256Bytes]
    /\ codec_out.address = codec_out.address2

\* C14: no thread executing update_acl_contract requests or holds the write
\* lock on the cached address while it still holds its read lock on it.
C14_ReadReleasedBeforeWrite ==
    \A t \in Threads : ~(pc[t] = "upd_write" /\ t \in readers)

C16_AvailableKeysReturns ==
    \A t \in Threads : (pc[t] \in AvPcs) ~> (pc[t] = "av_done")

\* C17: the cached address of a provider built by new is unset or an address
\* the registry answered to an earlier update_acl_contract call, and every
\* address passed to the gateway is such an address.
C17_OnlyResolvedAddresses ==
    from_new =>
        /\ keys_acl_contract = None \/ keys_acl_contract.value \in resolved
        /\ \A t \in Threads :
              \A i \in 1..Len(calls[t]) : calls[t][i].address \in resolved

C17_Witness ==
    /\ from_new
    /\ \E u, r \in Threads :
          /\ pc[u] = "upd_write"
          /\ contract_address[u].some /\ contract_address[u].value \in resolved
          /\ pc[r] = "av_done" /\ ret[r] = None
          /\ keys_acl_contract = None

\* C18: no step changes the configured key-server account; a step of
\* available_keys or key_server_account does not change the cached address,
\* which only a writing update_acl_contract step can change; and
\* key_server_account returns the account given to new.
C18_Accessors ==
    [][/\ key_server_account' = key_server_account
       /\ (keys_acl_contract' /= keys_acl_contract)
             => \E t \in Threads : pc[t] = "upd_write" /\ pc'[t] = "upd_done"
       /\ \A t \in Threads :
             (pc'[t] /= pc[t] /\ (pc[t] \in AvPcs \/ pc'[t] \in AvPcs \cup {"ksa_done"}))
                 => keys_acl_contract' = keys_acl_contract
       /\ \A t \in Threads :
             (pc[t] = "idle" /\ pc'[t] = "ksa_done") => ret'[t] = key_server_account]_vars

C18_Witness ==
    \E t, r \in Threads :
        /\ pc[t] = "ksa_done"
        /\ key_server_account.some /\ ret[t] = key_server_account
        /\ lastUpd.returned
        /\ pc[r] = "av_done"

====
